---- MODULE Spec2Model ----
(***************************************************************************)
(* A model of defects4cpp's metadata registry (taxonomy/__init__.py:       *)
(* MetaData, Taxonomy) and of the build command's execution lifecycle      *)
(* (processor/build.py: BuildCommand, BuildCommandScript).                 *)
(***************************************************************************)
EXTENDS Integers, Sequences, FiniteSets, TLC

VARIABLES
    fs,        \* fs[p]: the content of <base>/<p>/meta.json
    store,     \* Taxonomy.store: project name -> MetaData instance
    reads,     \* number of descriptor reads (open + json.load) done so far
    writes,    \* number of times the environment rewrote a descriptor
    returned,  \* returned[p][f]: the object the last successful access of f gave
    loaded,    \* loaded[p]: some _load of store[p] ran to completion
    recovery,  \* recovery[p]: "failed" after a load that missed a field, "corrected"
               \* once a loadable descriptor was then written, else "none"
    last,      \* what the last operation was and how it ended
    threads,   \* threads[t]: the position of thread t inside a property access
    phase,     \* the executor's position in the command lifecycle
    execInfo,  \* the DockerExecInfo under execution (its scripts)
    cur,       \* index of the script being processed
    cancelled, \* the execution was cancelled
    outputs,   \* output deliveries made to the script being processed
    calls      \* the hooks invoked so far, in order

vars == <<fs, store, reads, writes, returned, loaded, recovery, last, threads,
          phase, execInfo, cur, cancelled, outputs, calls>>

taxVars == <<fs, store, reads, writes, returned, loaded, recovery, last, threads>>
execVars == <<phase, execInfo, cur, cancelled, outputs, calls>>

----------------------------------------------------------------------------
(* Bounds *)

MaxReads == 3
MaxWrites == 1
MaxScripts == 2
MaxOutputs == 2

----------------------------------------------------------------------------
(* Descriptor documents: a JSON object is a function on its present keys.   *)

Drop(f, k) == [x \in (DOMAIN f) \ {k} |-> f[x]]

Put(f, k, v) == [x \in (DOMAIN f) \cup {k} |-> IF x = k THEN v ELSE f[x]]

\* A command token is a sequence of pieces; the job marker is one piece.
Marker == "@DPP_MAKE_JOB@"

Cmd(tokens) == [command |-> tokens]

GoodInfo ==
    ("url" :> "https://example.org/p.git") @@ ("short-desc" :> "d") @@ ("vcs" :> "git")

GoodCommon ==
    ("build" :> Cmd(<< <<"make">>, <<"-j", Marker>> >>)) @@
    ("build-coverage" :> Cmd(<< <<"make">>, <<"coverage">>, <<Marker>> >>)) @@
    ("test-type" :> "automake") @@
    ("test" :> Cmd(<< <<"make">>, <<"check">> >>)) @@
    ("test-coverage" :> Cmd(<< <<"make">>, <<"check-coverage">> >>)) @@
    ("gcov" :> [exclude |-> << "tests" >>, command |-> << <<"gcov">> >>])

Entry(h, p, c) == [hash |-> h, patch |-> p, cases |-> c]

GoodDefects == << Entry("abc1", 3, 7), Entry("abc2", 15, 2) >>

OtherDefects == << Entry("ffff", 1, 1) >>

\* A section is given as a sequence of length 0 (key absent) or 1.
MkDoc(i, c, d) ==
    [k \in (IF i = <<>> THEN {} ELSE {"info"})
           \cup (IF c = <<>> THEN {} ELSE {"common"})
           \cup (IF d = <<>> THEN {} ELSE {"defects"})
       |-> CASE k = "info" -> i[1]
             [] k = "common" -> c[1]
             [] OTHER -> d[1]]

InfoSections == { <<GoodInfo>>, <<Drop(GoodInfo, "url")>>, <<>> }

CommonSections ==
    { <<GoodCommon>>,
      <<Drop(GoodCommon, "test-type")>>,
      <<Put(GoodCommon, "test", [nocommand |-> <<>>])>> }

DefectsSections ==
    { <<GoodDefects>>,
      <<OtherDefects>>,
      << <<>> >>,
      << <<Entry("abc1", 3, 7), Drop(Entry("abc2", 15, 2), "hash")>> >>,
      <<>> }

Documents ==
    { MkDoc(i, c, d) : i \in InfoSections, c \in CommonSections, d \in DefectsSections }

GoodDoc == MkDoc(<<GoodInfo>>, <<GoodCommon>>, <<GoodDefects>>)

\* The content of a descriptor path: no file, or a file holding a document.
NoFile == [exists |-> FALSE, doc |-> <<>>]

File(doc) == [exists |-> TRUE, doc |-> doc]

Contents == {NoFile} \cup { File(d) : d \in Documents }

----------------------------------------------------------------------------
(* Exceptions *)

NoExc == [type |-> "none", args |-> <<>>]

Exc(t, a) == [type |-> t, args |-> a]

Raised(r) == r.exc.type # "none"

\* A JSON array standing where the loader expects an object.
JsonArray == [array |-> <<>>]

\* d[path[1]][path[2]]...: the value, or the KeyError of the first absent key.
RECURSIVE Lookup(_, _)
Lookup(d, path) ==
    IF path = <<>> THEN [exc |-> NoExc, val |-> d]
    ELSE IF d = JsonArray
         THEN [exc |-> Exc("TypeError", <<"list indices must be integers or slices, not str">>),
               val |-> <<>>]
    ELSE IF Head(path) \notin DOMAIN d
         THEN [exc |-> Exc("KeyError", <<Head(path)>>), val |-> <<>>]
         ELSE Lookup(d[Head(path)], Tail(path))

\* The first KeyError among lookups evaluated in order, or NoExc.
RECURSIVE FirstError(_, _)
FirstError(d, paths) ==
    IF paths = <<>> THEN NoExc
    ELSE IF Raised(Lookup(d, Head(paths))) THEN Lookup(d, Head(paths)).exc
         ELSE FirstError(d, Tail(paths))

----------------------------------------------------------------------------
(* Record types *)

\* The patch index printed without padding
Format04Unpadded(n) == ToString(n)

\* f"{n:04}" for an integer n >= 0
Format04(n) ==
    LET s == ToString(n)
    IN  IF Len(s) < 4 THEN SubSeq("0000", 1, 4 - Len(s)) \o s ELSE s

Defect(hash, buggy_patch, split_patch, cases) ==
    [hash |-> hash, buggy_patch |-> buggy_patch, split_patch |-> split_patch,
     cases |-> cases]

MetaInfo(url, description, vcs) ==
    [url |-> url, description |-> description, vcs |-> vcs]

Gcov(exclude, command) == [exclude |-> exclude, command |-> command]

Common(build_command, build_coverage_command, test_type, test_command, test_coverage_command, gcov) ==
    [build_command |-> build_command,
     build_coverage_command |-> build_coverage_command,
     test_type |-> test_type,
     test_command |-> test_command,
     test_coverage_command |-> test_coverage_command,
     gcov |-> gcov]

\* A Python object held in a lazy field: id is its identity (0: made by the
\* constructor, n > 0: made by the n-th read), val is <<>> for None or [],
\* <<record>> for a MetaInfo or Common, and the list itself for _defects.
Obj(id, val) == [id |-> id, val |-> val]

Fields == {"info", "common", "defects"}

\* MetaData.__init__
MetaDataInit(name, path) ==
    [name |-> name, path |-> path,
     info |-> Obj(0, <<>>), common |-> Obj(0, <<>>), defects |-> Obj(0, <<>>)]

\* Python truth of a lazy field: None and [] are false, a dataclass is true.
Truthy(obj) == obj.val # <<>>

----------------------------------------------------------------------------
(* MetaData: the lazy loader *)

\* config.DPP_MAKE_JOB, the resolved job count
DPP_MAKE_JOB == "4"

\* The base directory of the taxonomy, dirname(__file__)
Base == "taxonomy"

PathOf(name) == Base \o "/" \o name

\* A substitution that replaces only the tokens that are the marker itself
replaceWholeTokens(options) ==
    [i \in DOMAIN options |->
        IF options[i] = <<Marker>> THEN <<DPP_MAKE_JOB>> ELSE options[i]]

\* opt.replace("@DPP_MAKE_JOB@", config.DPP_MAKE_JOB) for opt in options
replace_make_job_flags(options) ==
    [i \in DOMAIN options |->
        [j \in DOMAIN options[i] |->
            IF options[i][j] = Marker THEN DPP_MAKE_JOB ELSE options[i][j]]]

\* to_enum with the branches of ctest and gtest exchanged
to_enumExchanged(value) ==
    IF value = "automake" THEN "Automake"
    ELSE IF value = "ctest" THEN "GoogleTest"
    ELSE IF value = "gtest" THEN "CTest"
    ELSE "None"

to_enum(value) ==
    IF value = "automake" THEN "Automake"
    ELSE IF value = "ctest" THEN "CTest"
    ELSE IF value = "gtest" THEN "GoogleTest"
    ELSE "None"

\* The result of a method of MetaData: the instance afterwards and what it raised.
Res(self, exc) == [self |-> self, exc |-> exc]

DppTaxonomyInitError(key, data_name) ==
    Exc("DppTaxonomyInitError", <<key, data_name>>)

\* except KeyError as e: raise DppTaxonomyInitError(e.args[0], data_name);
\* any other exception passes through.
Reraise(err, data_name) ==
    IF err.type = "KeyError" THEN DppTaxonomyInitError(err.args[1], data_name) ELSE err

\* The lookups one Defect(...) construction makes, in evaluation order.
DefectKeys == << <<"hash">>, <<"patch">>, <<"patch">>, <<"cases">> >>

\* MetaData._load_info: builds the Defect list (new object `id`).
_load_info(self, meta, id) ==
    LET top == Lookup(meta, <<"defects">>)
    IN  IF Raised(top)
        THEN Res(self, Reraise(top.exc, "MetaInfo"))
        ELSE
          LET entries == top.val
              bad == {i \in DOMAIN entries : FirstError(entries[i], DefectKeys).type # "none"}
              first == CHOOSE i \in bad : \A j \in bad : i <= j
          IN  IF bad # {}
              THEN Res(self, Reraise(FirstError(entries[first], DefectKeys), "MetaInfo"))
              ELSE Res([self EXCEPT !.defects = Obj(id,
                       [i \in DOMAIN entries |->
                           Defect(entries[i]["hash"],
                                  self.path \o "/patch/" \o Format04(entries[i]["patch"])
                                      \o "-buggy.patch",
                                  self.path \o "/patch/" \o Format04(entries[i]["patch"])
                                      \o "-split.patch",
                                  entries[i]["cases"])])],
                       NoExc)

\* The lookups the Common(...) construction makes, in evaluation order.
CommonKeys ==
    << <<"common", "build", "command">>,
       <<"common", "build-coverage", "command">>,
       <<"common", "test-type">>,
       <<"common", "test", "command">>,
       <<"common", "test-coverage", "command">>,
       <<"common", "gcov", "exclude">>,
       <<"common", "gcov", "command">> >>

\* MetaData._load_common
_load_common(self, meta, id) ==
    LET err == FirstError(meta, CommonKeys)
        c == meta["common"]
    IN  IF err.type # "none"
        THEN Res(self, Reraise(err, "Common"))
        ELSE Res([self EXCEPT !.common = Obj(id, <<
                     Common(replace_make_job_flags(c["build"]["command"]),
                            replace_make_job_flags(c["build-coverage"]["command"]),
                            to_enum(c["test-type"]),
                            replace_make_job_flags(c["test"]["command"]),
                            replace_make_job_flags(c["test-coverage"]["command"]),
                            Gcov(c["gcov"]["exclude"], c["gcov"]["command"])) >>)],
                 NoExc)

\* The lookups the MetaInfo(...) construction makes, in evaluation order.
InfoKeys == << <<"info", "url">>, <<"info", "short-desc">>, <<"info", "vcs">> >>

\* MetaData._load_defects: builds the MetaInfo.
_load_defects(self, meta, id) ==
    LET err == FirstError(meta, InfoKeys)
        i == meta["info"]
    IN  IF err.type # "none"
        THEN Res(self, Reraise(err, "Defect"))
        ELSE Res([self EXCEPT !.info = Obj(id, <<
                     MetaInfo(i["url"], i["short-desc"], i["vcs"]) >>)],
                 NoExc)

\* _load building the MetaInfo first, then the Defect list, then the Common
_loadInfoFirst(self, content, id) ==
    IF ~content.exists
    THEN Res(self, Exc("FileNotFoundError", <<self.path \o "/meta.json">>))
    ELSE LET r1 == _load_defects(self, content.doc, id)
             r2 == _load_info(r1.self, content.doc, id)
             r3 == _load_common(r2.self, content.doc, id)
         IN  IF Raised(r1) THEN r1 ELSE IF Raised(r2) THEN r2 ELSE r3

\* MetaData._load: open and parse the descriptor, then the three stages.
_load(self, content, id) ==
    IF ~content.exists
    THEN Res(self, Exc("FileNotFoundError", <<self.path \o "/meta.json">>))
    ELSE LET r1 == _load_info(self, content.doc, id)
             r2 == _load_common(r1.self, content.doc, id)
             r3 == _load_defects(r2.self, content.doc, id)
         IN  IF Raised(r1) THEN r1 ELSE IF Raised(r2) THEN r2 ELSE r3

\* The properties info, common and defects: load when the field is false.
NeedsLoad(self, f) == ~Truthy(self[f])

Property(self, f, content, id) ==
    IF NeedsLoad(self, f) THEN _load(self, content, id) ELSE Res(self, NoExc)

----------------------------------------------------------------------------
(* Taxonomy: the registry *)

\* The names iter_modules yields for the taxonomy directory, in its order.
ModuleOrder == <<"libssh", "yara">>

Modules == {ModuleOrder[i] : i \in DOMAIN ModuleOrder}

\* The names a caller may use as a key: the modules and one that is none.
Projects == Modules \cup {"ghost"}

KeyOrder == ModuleOrder \o <<"ghost">>

\* An instance in the registry: the MetaData and its identity as an object.
Instance(oid, name) == [oid |-> oid, md |-> MetaDataInit(name, PathOf(name))]

\* Taxonomy.__init__: one MetaData per discovered module
TaxonomyInit == [name \in Modules |-> Instance(name, name)]

\* The result of a method of Taxonomy: the store afterwards, what it raised
\* and what it returned.
TRes(st, exc, ret) == [store |-> st, exc |-> exc, ret |-> ret]

None == <<>>

\* _keytransform without its assertion
_keytransformUnchecked(files, key) == [exc |-> NoExc, val |-> key]

\* Taxonomy._keytransform
_keytransform(files, key) ==
    IF files[key].exists
    THEN [exc |-> NoExc, val |-> key]
    ELSE [exc |-> Exc("AssertionError", <<"Taxonomy '" \o key \o "' does not exist">>),
          val |-> key]

\* Taxonomy.__getitem__
__getitem__(st, files, key) ==
    LET k == _keytransform(files, key)
    IN  IF Raised(k) THEN TRes(st, k.exc, None)
        ELSE IF k.val \notin DOMAIN st THEN TRes(st, Exc("KeyError", <<k.val>>), None)
        ELSE TRes(st, NoExc, <<st[k.val].oid>>)

\* __setitem__ binding the value, as a mutable mapping would
__setitem__Binds(st, key, value) ==
    TRes([k \in DOMAIN st \cup {key} |-> IF k = key THEN value ELSE st[k]], NoExc, None)

\* Taxonomy.__setitem__
__setitem__(st, key, value) ==
    TRes(st, Exc("RuntimeError", <<"set operator is not allowed">>), None)

\* __delitem__ removing the entry, as a mutable mapping would
__delitem__Removes(st, key) ==
    IF key \in DOMAIN st
    THEN TRes([k \in DOMAIN st \ {key} |-> st[k]], NoExc, None)
    ELSE TRes(st, Exc("KeyError", <<key>>), None)

\* Taxonomy.__delitem__
__delitem__(st, key) ==
    TRes(st, Exc("RuntimeError", <<"del operator is not allowed">>), None)

\* Taxonomy.__iter__: the keys of the store in insertion order
__iter__(st) == SelectSeq(KeyOrder, LAMBDA k : k \in DOMAIN st)

\* Taxonomy.__len__
__len__(st) == Cardinality(DOMAIN st)

\* MutableMapping.pop(key) over the methods above (no default given)
pop(st, files, key) ==
    LET g == __getitem__(st, files, key)
        d == __delitem__(st, key)
    IN  IF Raised(g) THEN g
        ELSE IF Raised(d) THEN d
        ELSE TRes(d.store, NoExc, g.ret)

\* MutableMapping.popitem
popitem(st, files) ==
    IF __iter__(st) = <<>> THEN TRes(st, Exc("KeyError", <<>>), None)
    ELSE pop(st, files, Head(__iter__(st)))

\* MutableMapping.clear: popitem until KeyError
RECURSIVE clear(_, _)
clear(st, files) ==
    LET r == popitem(st, files)
    IN  IF r.exc.type = "KeyError" THEN TRes(r.store, NoExc, None)
        ELSE IF Raised(r) THEN r
        ELSE clear(r.store, files)

\* MutableMapping.update({key: value})
update(st, key, value) == __setitem__(st, key, value)

\* MutableMapping.setdefault(key, default)
setdefault(st, files, key, default) ==
    LET g == __getitem__(st, files, key)
    IN  IF g.exc.type = "KeyError" THEN
            LET s == __setitem__(st, key, default)
            IN  IF Raised(s) THEN s ELSE TRes(s.store, NoExc, <<default.oid>>)
        ELSE g

----------------------------------------------------------------------------
(* Operations on the registry and on its MetaData instances *)

NoObj == Obj(-1, <<>>)

\* The record of an operation: which, on what, how it ended, what it returned
\* (obj: a lazy field's object; ret: a registry method's value), whether it read
\* the descriptor, the MetaData before it, and the history it started from.
Last(op, key, field, exc, obj, ret, read, pre, prev, wasLoaded, wasRecovery) ==
    [op |-> op, key |-> key, field |-> field, exc |-> exc, obj |-> obj, ret |-> ret,
     read |-> read, pre |-> pre, prev |-> prev, wasLoaded |-> wasLoaded,
     wasRecovery |-> wasRecovery]

\* A descriptor content from which a fresh MetaData loads completely.
Loadable(c) == ~Raised(_load(MetaDataInit("", ""), c, 1))

NoMd == MetaDataInit("", "")

RegistryOp(op, key, r) ==
    /\ store' = r.store
    /\ last' = Last(op, key, "", r.exc, NoObj, r.ret, FALSE, NoMd, NoObj, FALSE, "none")
    /\ UNCHANGED <<fs, reads, writes, returned, loaded, recovery, threads>>

\* md.info, md.common or md.defects on the instance registered as p
Access(p, f) ==
    LET self == store[p].md
        load == NeedsLoad(self, f)
        read == load /\ fs[p].exists
        r == Property(self, f, fs[p], reads + 1)
    IN  /\ p \in DOMAIN store
        /\ read => reads < MaxReads
        /\ store' = [store EXCEPT ![p].md = r.self]
        /\ reads' = IF read THEN reads + 1 ELSE reads
        /\ returned' = IF Raised(r) THEN returned
                       ELSE [returned EXCEPT ![p][f] = r.self[f]]
        /\ loaded' = [loaded EXCEPT ![p] = @ \/ (load /\ ~Raised(r))]
        /\ last' = Last("access", p, f, r.exc,
                        IF Raised(r) THEN NoObj ELSE r.self[f], None,
                        read, self, returned[p][f], loaded[p], recovery[p])
        /\ recovery' = [recovery EXCEPT ![p] =
                            IF read /\ r.exc.type = "DppTaxonomyInitError"
                            THEN "failed" ELSE "none"]
        /\ UNCHANGED <<fs, writes, threads>>

\* The environment rewrites (or removes) the descriptor file of project p.
WriteDescriptor(p, c) ==
    /\ writes < MaxWrites
    /\ c # fs[p]
    /\ fs' = [fs EXCEPT ![p] = c]
    /\ writes' = writes + 1
    /\ last' = Last("write", p, "", NoExc, NoObj, None, FALSE, NoMd, NoObj, FALSE, "none")
    /\ recovery' = [q \in DOMAIN recovery |->
                        IF q = p /\ recovery[q] # "none"
                        THEN (IF Loadable(c) THEN "corrected" ELSE "none")
                        ELSE recovery[q]]
    /\ UNCHANGED <<store, reads, returned, loaded, threads>>

\* The threads that may be inside a property of one MetaData at once.
MaxThreads == 2

Threads == 1..MaxThreads

\* A thread outside any property.
Idle == [pc |-> "idle", field |-> "", id |-> 0, exc |-> NoExc, obj |-> NoObj,
         partial |-> FALSE]

\* Only some of the three lazy fields hold an object that a load made.
Partial(self) ==
    /\ \E f \in Fields : self[f].id > 0
    /\ \E f \in Fields : self[f].id = 0

\* Thread t calls md.info, md.common or md.defects.
ThreadCall(t, p, f) ==
    /\ threads[t].pc = "idle"
    /\ threads' = [threads EXCEPT ![t] = [Idle EXCEPT !.pc = "check", !.field = f]]
    /\ UNCHANGED <<fs, store, reads, writes, returned, loaded, recovery, last>>

\* if not self._<field>: the thread reads the field and decides to load or not.
ThreadCheck(t, p) ==
    LET self == store[p].md
        load == NeedsLoad(self, threads[t].field)
    IN  /\ threads[t].pc = "check"
        /\ threads' = [threads EXCEPT ![t].pc = IF load THEN "open" ELSE "return",
                                       ![t].partial = ~load /\ Partial(self)]
        /\ UNCHANGED <<fs, store, reads, writes, returned, loaded, recovery, last>>

\* _load: with open(...) as fp: meta = json.load(fp)
ThreadOpen(t, p) ==
    /\ threads[t].pc = "open"
    /\ IF fs[p].exists
       THEN /\ reads' = reads + 1
            /\ threads' = [threads EXCEPT ![t].pc = "stage1", ![t].id = reads + 1]
       ELSE /\ reads' = reads
            /\ threads' = [threads EXCEPT ![t].pc = "done",
                               ![t].exc = _load(store[p].md, fs[p], 0).exc]
    /\ UNCHANGED <<fs, store, writes, returned, loaded, recovery, last>>

\* Stage with a second stage that builds nothing
StageSkipsCommon(n, self, meta, id) ==
    IF n = 1 THEN _load_info(self, meta, id)
    ELSE IF n = 2 THEN Res(self, NoExc)
    ELSE _load_defects(self, meta, id)

\* The n-th stage of _load, on the document the thread parsed.
Stage(n, self, meta, id) ==
    IF n = 1 THEN _load_info(self, meta, id)
    ELSE IF n = 2 THEN _load_common(self, meta, id)
    ELSE _load_defects(self, meta, id)

StagePcs == <<"stage1", "stage2", "stage3", "return">>

\* Thread t runs stage n of its load: the stage assigns its field of the
\* shared instance, or raises and ends the access.
ThreadStage(t, p, n) ==
    LET r == Stage(n, store[p].md, fs[p].doc, threads[t].id)
    IN  /\ threads[t].pc = StagePcs[n]
        /\ store' = [store EXCEPT ![p].md = r.self]
        /\ threads' = IF Raised(r)
                      THEN [threads EXCEPT ![t].pc = "done", ![t].exc = r.exc]
                      ELSE [threads EXCEPT ![t].pc = StagePcs[n + 1]]
        /\ UNCHANGED <<fs, reads, writes, returned, loaded, recovery, last>>

\* return self._<field>: the thread reads the field again and returns it.
ThreadReturn(t, p) ==
    LET self == store[p].md
    IN  /\ threads[t].pc = "return"
        /\ threads' = [threads EXCEPT ![t].pc = "done",
                                       ![t].obj = self[threads[t].field],
                                       ![t].partial = @ \/ Partial(self)]
        /\ UNCHANGED <<fs, store, reads, writes, returned, loaded, recovery, last>>

GetItem(key) ==
    RegistryOp("getitem", key, __getitem__(store, fs, key))

\* The values a caller may try to bind: MetaData instances of its own making.
Values == { Instance("new", name) : name \in {"libssh", "ghost"} }

SetItem(key, value) ==
    RegistryOp("setitem", key, __setitem__(store, key, value))

DelItem(key) ==
    RegistryOp("delitem", key, __delitem__(store, key))

Iter ==
    RegistryOp("iter", "", TRes(store, NoExc, __iter__(store)))

Length ==
    RegistryOp("len", "", TRes(store, NoExc, <<__len__(store)>>))

Pop(key) ==
    RegistryOp("pop", key, pop(store, fs, key))

PopItem ==
    RegistryOp("popitem", "", popitem(store, fs))

Clear ==
    RegistryOp("clear", "", clear(store, fs))

Update(key, value) ==
    RegistryOp("update", key, update(store, key, value))

SetDefault(key, value) ==
    RegistryOp("setdefault", key, setdefault(store, fs, key, value))

----------------------------------------------------------------------------
(* Specifications *)

InitHistory ==
    /\ store = TaxonomyInit
    /\ reads = 0
    /\ writes = 0
    /\ returned = [p \in Modules |-> [f \in Fields |-> NoObj]]
    /\ loaded = [p \in Modules |-> FALSE]
    /\ recovery = [p \in Modules |-> "none"]
    /\ last = Last("init", "", "", NoExc, NoObj, None, FALSE, NoMd, NoObj, FALSE, "none")
    /\ threads = [t \in Threads |-> Idle]

InitExecIdle ==
    /\ phase = "idle"
    /\ execInfo = <<>>
    /\ cur = 0
    /\ cancelled = FALSE
    /\ outputs = 0
    /\ calls = <<>>

\* The MetaData under study in Spec
Subject == "libssh"

\* One MetaData instance, any descriptor, a descriptor that may change.
Init ==
    /\ fs \in [Projects -> Contents]
    /\ \A p \in Projects \ {Subject} : fs[p] = NoFile
    /\ InitHistory
    /\ InitExecIdle

Next ==
    \/ \E f \in Fields : Access(Subject, f) /\ UNCHANGED execVars
    \/ \E c \in Contents : WriteDescriptor(Subject, c) /\ UNCHANGED execVars

Spec == Init /\ [][Next]_vars

----------------------------------------------------------------------------
(* Claims about the MetaData loader *)

AccessEnded == last.op = "access"

AccessRaised == AccessEnded /\ last.exc.type # "none"

AccessReturned == AccessEnded /\ last.exc.type = "none"

\* The MetaData the last access was made on, as it is now.
Now == store[last.key].md

\* C1: a load is atomic on failure: after an access of a lazy field that
\* raised, the three lazy fields are what they were before that access.
C1_LoadAtomicOnFailure ==
    AccessRaised =>
        /\ Now.info = last.pre.info
        /\ Now.common = last.pre.common
        /\ Now.defects = last.pre.defects

\* C2: the lazy fields are populated together: whenever an access returns
\* without raising, _info and _common are not None and _defects is a list
\* that a load produced.
C2_PopulatedTogether ==
    AccessReturned =>
        /\ Now.info.val # None
        /\ Now.common.val # None
        /\ Now.defects.id > 0

\* C3: loading is idempotent: once a load of the MetaData has succeeded, an
\* access reads no descriptor, does not raise, and returns the object the
\* previous access of that field returned.
C3_LoadIdempotent ==
    (AccessEnded /\ last.wasLoaded) =>
        /\ ~last.read
        /\ last.exc.type = "none"
        /\ last.prev # NoObj => last.obj = last.prev

\* C4: a MetaData stays reloadable: the first access after a load failed on a
\* missing field and the descriptor was corrected reads the descriptor,
\* succeeds, and leaves all three fields populated by that read.
C4_ReloadableAfterFailure ==
    (AccessEnded /\ last.wasRecovery = "corrected") =>
        /\ last.read
        /\ last.exc.type = "none"
        /\ \A f \in Fields : Now[f].id = reads
        /\ Now.info.val # None /\ Now.common.val # None

\* The record type whose construction misses a field of document d, going by
\* the section the field belongs to ("" when a whole section is absent or
\* nothing is missing).
RecordMissingField(d) ==
    IF "defects" \notin DOMAIN d THEN ""
    ELSE IF \E i \in DOMAIN d["defects"] :
                FirstError(d["defects"][i], DefectKeys).type # "none" THEN "Defect"
    ELSE IF "common" \notin DOMAIN d THEN ""
    ELSE IF FirstError(d, CommonKeys).type # "none" THEN "Common"
    ELSE IF "info" \notin DOMAIN d THEN ""
    ELSE IF FirstError(d, InfoKeys).type # "none" THEN "MetaInfo"
    ELSE ""

\* The key whose lookup fails first while that record is constructed.
MissingField(d) ==
    CASE RecordMissingField(d) = "Defect" ->
           LET bad == {i \in DOMAIN d["defects"] :
                          FirstError(d["defects"][i], DefectKeys).type # "none"}
               first == CHOOSE i \in bad : \A j \in bad : i <= j
           IN  FirstError(d["defects"][first], DefectKeys).args[1]
      [] RecordMissingField(d) = "Common" -> FirstError(d, CommonKeys).args[1]
      [] RecordMissingField(d) = "MetaInfo" -> FirstError(d, InfoKeys).args[1]
      [] OTHER -> ""

\* C5: when a field of a section is absent, the taxonomy-load error carries
\* the name of the missing field and the record type built from that section:
\* MetaInfo for info, Common for common, Defect for a defects entry.
C5_ErrorNamesRecordType ==
    (AccessEnded /\ last.exc.type = "DppTaxonomyInitError"
                 /\ RecordMissingField(fs[last.key].doc) # "") =>
        last.exc.args = <<MissingField(fs[last.key].doc),
                          RecordMissingField(fs[last.key].doc)>>

----------------------------------------------------------------------------
(* The registry with all its operations *)

\* The descriptor contents used with the registry: no file or a complete one.
TaxContents == { NoFile, File(GoodDoc) }

TaxInit ==
    /\ fs \in [Projects -> TaxContents]
    /\ InitHistory
    /\ InitExecIdle

TaxNext ==
    \/ \E p \in Modules, f \in Fields : Access(p, f) /\ UNCHANGED execVars
    \/ \E p \in Projects, c \in TaxContents : WriteDescriptor(p, c) /\ UNCHANGED execVars
    \/ \E k \in Projects : GetItem(k) /\ UNCHANGED execVars
    \/ \E k \in Projects, v \in Values : SetItem(k, v) /\ UNCHANGED execVars
    \/ \E k \in Projects : DelItem(k) /\ UNCHANGED execVars
    \/ Iter /\ UNCHANGED execVars
    \/ Length /\ UNCHANGED execVars
    \/ \E k \in Projects : Pop(k) /\ UNCHANGED execVars
    \/ PopItem /\ UNCHANGED execVars
    \/ Clear /\ UNCHANGED execVars
    \/ \E k \in Projects, v \in Values : Update(k, v) /\ UNCHANGED execVars
    \/ \E k \in Projects, v \in Values : SetDefault(k, v) /\ UNCHANGED execVars

TaxSpec == TaxInit /\ [][TaxNext]_vars

----------------------------------------------------------------------------
(* Claims about the Taxonomy registry *)

\* C6: setting or deleting an entry of the registry always fails with a
\* runtime error, for every key and value, before and after loads.
C6_MutationRejected ==
    last.op \in {"setitem", "delitem"} => last.exc.type = "RuntimeError"

\* A set on a key that is no module, after a MetaData was loaded, was rejected.
C6_Witness ==
    /\ last.op = "setitem"
    /\ last.key = "ghost"
    /\ last.exc.type = "RuntimeError"
    /\ \E p \in Modules : loaded[p]

\* C7: the registry is read-only after construction: its keys and the
\* MetaData instance bound to each key are those the constructor established.
C7_RegistryReadOnly ==
    /\ DOMAIN store = DOMAIN TaxonomyInit
    /\ \A k \in DOMAIN store :
          /\ store[k].oid = TaxonomyInit[k].oid
          /\ store[k].md.name = TaxonomyInit[k].md.name
          /\ store[k].md.path = TaxonomyInit[k].md.path

\* popitem got as far as deleting the first entry, whose MetaData is loaded.
C7_Witness ==
    /\ last.op = "popitem"
    /\ last.exc.type = "RuntimeError"
    /\ loaded[Head(ModuleOrder)]

\* C8: a lookup checks the descriptor file first: it returns a MetaData only
\* if <base>/<key>/meta.json exists at that time, and when it does not exist
\* the lookup fails with the message naming the project, reads no descriptor
\* and loads nothing.
C8_LookupChecksDescriptor ==
    [][ last'.op = "getitem" =>
          /\ last'.ret # None => fs[last'.key].exists
          /\ ~fs[last'.key].exists =>
                /\ last'.exc =
                     Exc("AssertionError",
                         <<"Taxonomy '" \o last'.key \o "' does not exist">>)
                /\ last'.ret = None
                /\ reads' = reads
                /\ store' = store ]_vars

\* A lookup of a registered module whose descriptor file is gone has failed.
C8_Witness ==
    /\ last.op = "getitem"
    /\ last.key \in Modules
    /\ ~fs[last.key].exists
    /\ last.exc.type = "AssertionError"

----------------------------------------------------------------------------
(* The build command and its scripts *)

\* What a hook does to its caller: it returns, or it raises.
Returns == "returns"

Raises == "raises"

\* A before hook that raises
beforeRaises(info) == Raises

\* BuildCommandScript.before
before(info) == Returns

\* BuildCommandScript.output
output(exit_code, stream) == Returns

\* BuildCommandScript.after
after(info, exit_code, out) == Returns

\* BuildCommand.setup: announces the build
setup(info) == Returns

\* BuildCommand.teardown
teardown(info) == Returns

BuildCommandScript(command) == [command |-> command]

DockerExecInfo(metadata, worktree, commands, stream) ==
    [metadata |-> metadata, worktree |-> worktree, commands |-> commands,
     stream |-> stream]

----------------------------------------------------------------------------
(* The executor: setup, then each script in list order, then teardown *)

Call(hook, script, exit_code) == [hook |-> hook, script |-> script, exit_code |-> exit_code]

\* The exit codes a script may end with
ExitCodes == {0, 1}

NoScripts == Len(execInfo.commands)

\* Where the executor goes when a hook has returned (to) or has raised:
\* a raise ends the scripts, and teardown still runs.
Continue(result, to) == IF result = Raises THEN "teardown" ELSE to

\* A cancellation that ends the execution on the spot
OnCancelStops(at) == "done"

\* Where the executor goes when the execution is cancelled while scripts are
\* processed: the script ends without an exit code, and teardown still runs.
OnCancel(at) == IF at = "running" THEN "finished" ELSE at

\* The executor invokes setup and turns to the first script.
Setup ==
    /\ phase = "idle"
    /\ calls' = Append(calls, Call("setup", 0, None))
    /\ phase' = Continue(setup(execInfo), "pending")
    /\ cur' = 1
    /\ UNCHANGED <<execInfo, cancelled, outputs>>

\* The executor invokes before on the script at hand; a script of a cancelled
\* execution is not run.
Before ==
    /\ phase = "pending"
    /\ calls' = Append(calls, Call("before", cur, None))
    /\ phase' = Continue(before(execInfo), IF cancelled THEN "finished" ELSE "running")
    /\ outputs' = 0
    /\ UNCHANGED <<execInfo, cur, cancelled>>

\* Streaming: a chunk of output is delivered while the script runs.
Output ==
    /\ phase = "running"
    /\ execInfo.stream
    /\ outputs < MaxOutputs
    /\ calls' = Append(calls, Call("output", cur, None))
    /\ phase' = Continue(output(None, "chunk"), "running")
    /\ outputs' = outputs + 1
    /\ UNCHANGED <<execInfo, cur, cancelled>>

\* The script ends with an exit code; buffered output is delivered now.
Complete(code) ==
    /\ phase = "running"
    /\ IF execInfo.stream
       THEN /\ phase' = "finished"
            /\ UNCHANGED <<calls, outputs>>
       ELSE /\ calls' = Append(calls, Call("output", cur, <<code>>))
            /\ phase' = Continue(output(code, "all"), "finished")
            /\ outputs' = outputs + 1
    /\ execInfo' = [execInfo EXCEPT !.commands[cur] =
                       [command |-> @.command, exit_code |-> <<code>>]]
    /\ UNCHANGED <<cur, cancelled>>

ExitCodeOf(script) ==
    IF "exit_code" \in DOMAIN script THEN script.exit_code ELSE None

\* The executor invokes after on the script at hand and turns to the next
\* script, or to teardown after the last.
After ==
    /\ phase = "finished"
    /\ calls' = Append(calls, Call("after", cur, ExitCodeOf(execInfo.commands[cur])))
    /\ phase' = Continue(after(execInfo, ExitCodeOf(execInfo.commands[cur]), None),
                         IF cur < NoScripts THEN "pending" ELSE "teardown")
    /\ cur' = cur + 1
    /\ UNCHANGED <<execInfo, cancelled, outputs>>

\* The execution is cancelled while scripts are processed.
Cancel ==
    /\ phase \in {"pending", "running", "finished"}
    /\ ~cancelled
    /\ cancelled' = TRUE
    /\ phase' = OnCancel(phase)
    /\ UNCHANGED <<execInfo, cur, outputs, calls>>

\* The executor invokes teardown; the execution is over.
Teardown ==
    /\ phase = "teardown"
    /\ calls' = Append(calls, Call("teardown", 0, None))
    /\ phase' = IF teardown(execInfo) = Raises THEN "failed" ELSE "done"
    /\ UNCHANGED <<execInfo, cur, cancelled, outputs>>

Commands == { <<"make">>, <<"make", "coverage">> }

Requests ==
    { DockerExecInfo(Subject, "worktree", commands, stream) :
        commands \in UNION { [1..n -> {BuildCommandScript(c) : c \in Commands}]
                             : n \in 1..MaxScripts },
        stream \in BOOLEAN }

ExecInit ==
    /\ fs = [p \in Projects |-> File(GoodDoc)]
    /\ InitHistory
    /\ phase = "idle"
    /\ execInfo \in Requests
    /\ cur = 0
    /\ cancelled = FALSE
    /\ outputs = 0
    /\ calls = <<>>

\* The steps of the executor itself
ExecStep ==
    \/ Setup /\ UNCHANGED taxVars
    \/ Before /\ UNCHANGED taxVars
    \/ Output /\ UNCHANGED taxVars
    \/ \E code \in ExitCodes : Complete(code) /\ UNCHANGED taxVars
    \/ After /\ UNCHANGED taxVars
    \/ Teardown /\ UNCHANGED taxVars

ExecNext ==
    \/ ExecStep
    \/ Cancel /\ UNCHANGED taxVars

ExecSpec == ExecInit /\ [][ExecNext]_vars

\* The executor keeps running: a script ends or is cancelled, and a hook
\* that is due is invoked.
FairExecSpec == ExecSpec /\ WF_vars(ExecStep)

----------------------------------------------------------------------------
(* Claims about the execution lifecycle *)

\* How many times a hook was invoked for a script (0: the command's hooks).
Count(hook, script) ==
    Cardinality({k \in DOMAIN calls : calls[k].hook = hook /\ calls[k].script = script})

SetupInvoked == Count("setup", 0) > 0

TeardownCalls == Count("teardown", 0)

RECURSIVE Follows(_, _, _)
Follows(k, i, st) ==
    IF k > Len(calls) THEN TRUE
    ELSE LET c == calls[k]
         IN  CASE st = "start" ->
                    c.hook = "setup" /\ Follows(k + 1, 1, "between")
               [] st = "between" ->
                    \/ c.hook = "before" /\ c.script = i /\ i <= NoScripts
                         /\ Follows(k + 1, i, "in")
                    \/ c.hook = "teardown" /\ Follows(k + 1, i, "end")
               [] st = "in" ->
                    \/ c.hook = "output" /\ c.script = i /\ Follows(k + 1, i, "in")
                    \/ c.hook = "after" /\ c.script = i /\ Follows(k + 1, i + 1, "between")
               [] OTHER -> FALSE

\* C10: the hooks follow the per-script state machine in list order: setup,
\* then for script 1, 2, ... before, any number of output deliveries and
\* after, then teardown; and when the execution is over every script had
\* before exactly once and after exactly once.
C10_ScriptStateMachine ==
    /\ Follows(1, 1, "start")
    /\ phase = "done" =>
          \A i \in 1..NoScripts : Count("before", i) = 1 /\ Count("after", i) = 1

\* Two scripts were processed, the first with two output deliveries and
\* the second with none.
C10_Witness ==
    /\ phase = "done"
    /\ NoScripts = 2
    /\ Count("output", 1) = 2
    /\ Count("output", 2) = 0
    /\ Count("after", 2) = 1

----------------------------------------------------------------------------
(* BuildCommand.run *)

\* The argument vectors of `d++ build`: the checkout directory, with or
\* without --coverage and --verbose.
Argvs ==
    { flags \o <<"worktree">> :
        flags \in { <<>>, <<"--coverage">>, <<"--verbose">>,
                    <<"--coverage", "--verbose">> } }

Flag(argv, f) == \E i \in DOMAIN argv : argv[i] = f

\* self.parser.parse_args(argv)
parse_args(argv) ==
    [path |-> argv[Len(argv)], coverage |-> Flag(argv, "--coverage"),
     verbose |-> Flag(argv, "--verbose")]

\* read_config(args.path): the MetaData of the checked-out project (name) and
\* the worktree
read_config(path, name) == [metadata |-> name, worktree |-> path]

\* The result of run: the MetaData afterwards, what run raised, what reading
\* metadata.common raised, and the DockerExecInfo returned.
RunRes(self, exc, inner, ret) == [self |-> self, exc |-> exc, inner |-> inner, ret |-> ret]

\* run returning a request without scripts when the metadata cannot be read
runSwallows(self, content, id, argv) ==
    LET args == parse_args(argv)
        cfg == read_config(args.path, self.name)
        c == Property(self, "common", content, id)
    IN  IF Raised(c)
        THEN RunRes(c.self, NoExc, c.exc,
                    <<DockerExecInfo(cfg.metadata, cfg.worktree, <<>>, args.verbose)>>)
        ELSE RunRes(c.self, NoExc, NoExc,
                    <<DockerExecInfo(cfg.metadata, cfg.worktree,
                        << BuildCommandScript(
                             IF args.coverage THEN c.self.common.val[1].build_coverage_command
                             ELSE c.self.common.val[1].build_command) >>,
                        args.verbose)>>)

\* run taking the plain build command with --coverage and the other way round
runSwapped(self, content, id, argv) ==
    LET args == parse_args(argv)
        cfg == read_config(args.path, self.name)
        c == Property(self, "common", content, id)
    IN  IF Raised(c) THEN RunRes(c.self, c.exc, c.exc, None)
        ELSE RunRes(c.self, NoExc, NoExc,
                    <<DockerExecInfo(cfg.metadata, cfg.worktree,
                        << BuildCommandScript(
                             IF args.coverage THEN c.self.common.val[1].build_command
                             ELSE c.self.common.val[1].build_coverage_command) >>,
                        args.verbose)>>)

\* run streaming whenever --coverage is given
runStreamsCoverage(self, content, id, argv) ==
    LET args == parse_args(argv)
        cfg == read_config(args.path, self.name)
        c == Property(self, "common", content, id)
    IN  IF Raised(c) THEN RunRes(c.self, c.exc, c.exc, None)
        ELSE RunRes(c.self, NoExc, NoExc,
                    <<DockerExecInfo(cfg.metadata, cfg.worktree,
                        << BuildCommandScript(
                             IF args.coverage THEN c.self.common.val[1].build_coverage_command
                             ELSE c.self.common.val[1].build_command) >>,
                        args.coverage)>>)

\* BuildCommand.run
run(self, content, id, argv) ==
    LET args == parse_args(argv)
        cfg == read_config(args.path, self.name)
        c == Property(self, "common", content, id)
        commands == IF args.coverage
                    THEN << BuildCommandScript(c.self.common.val[1].build_coverage_command) >>
                    ELSE << BuildCommandScript(c.self.common.val[1].build_command) >>
        stream == IF args.verbose THEN TRUE ELSE FALSE
    IN  IF Raised(c) THEN RunRes(c.self, c.exc, c.exc, None)
        ELSE RunRes(c.self, NoExc, NoExc,
                    <<DockerExecInfo(cfg.metadata, cfg.worktree, commands, stream)>>)

\* The build command is run on the project whose MetaData is registered as p.
Run(p, argv) ==
    LET self == store[p].md
        load == NeedsLoad(self, "common")
        read == load /\ fs[p].exists
        r == run(self, fs[p], reads + 1, argv)
    IN  /\ read => reads < MaxReads
        /\ store' = [store EXCEPT ![p].md = r.self]
        /\ reads' = IF read THEN reads + 1 ELSE reads
        /\ returned' = IF r.inner.type # "none" THEN returned
                       ELSE [returned EXCEPT ![p]["common"] = r.self.common]
        /\ loaded' = [loaded EXCEPT ![p] = @ \/ (load /\ r.inner.type = "none")]
        /\ recovery' = [recovery EXCEPT ![p] =
                            IF read /\ r.inner.type = "DppTaxonomyInitError"
                            THEN "failed" ELSE "none"]
        /\ last' = Last("run", p, "common", r.exc, NoObj, r.ret,
                        read, self, returned[p]["common"], loaded[p], recovery[p])
                   @@ [args |-> parse_args(argv), inner |-> r.inner]
        /\ UNCHANGED <<fs, writes, threads>>

\* A descriptor whose common section is an array, not an object.
MalformedDoc == MkDoc(<<GoodInfo>>, <<JsonArray>>, <<GoodDefects>>)

RunContents == Contents \cup {File(MalformedDoc)}

RunInit ==
    /\ \E c \in RunContents :
          fs = [p \in Projects |-> IF p = Subject THEN c ELSE NoFile]
    /\ InitHistory
    /\ InitExecIdle

RunNext ==
    \/ \E argv \in Argvs : Run(Subject, argv) /\ UNCHANGED execVars
    \/ \E c \in RunContents : WriteDescriptor(Subject, c) /\ UNCHANGED execVars

RunSpec == RunInit /\ [][RunNext]_vars

----------------------------------------------------------------------------
(* Claims about BuildCommand.run *)

RunEnded == last.op = "run"

\* C11: a metadata failure is fatal to run: when reading metadata.common
\* raises, run raises that same error and returns no DockerExecInfo.
C11_MetadataFailureFatal ==
    (RunEnded /\ last.inner.type # "none") =>
        /\ last.exc = last.inner
        /\ last.ret = None

\* run has failed on a descriptor whose common section misses a field.
C11_Witness ==
    /\ RunEnded
    /\ last.exc = DppTaxonomyInitError("test-type", "Common")
    /\ last.ret = None

\* C12: run returns a request with exactly one script, which wraps the
\* project's build-coverage command when --coverage is given and its build
\* command otherwise.
C12_SingleScript ==
    (RunEnded /\ last.exc.type = "none") =>
        /\ Len(last.ret) = 1
        /\ Len(last.ret[1].commands) = 1
        /\ last.ret[1].commands[1].command =
              IF last.args.coverage
              THEN Now.common.val[1].build_coverage_command
              ELSE Now.common.val[1].build_command

\* run with --coverage has wrapped the build-coverage command of GoodCommon.
C12_Witness ==
    /\ RunEnded
    /\ last.args.coverage
    /\ last.ret # None
    /\ last.ret[1].commands = << [command |-> << <<"make">>, <<"coverage">>, <<"4">> >>] >>

\* C13: the stream flag of the returned request is true exactly when
\* --verbose was given, whatever --coverage is.
C13_StreamIsVerbose ==
    (RunEnded /\ last.exc.type = "none") => last.ret[1].stream = last.args.verbose

\* run with --coverage and without --verbose has returned a buffered request.
C13_Witness ==
    /\ RunEnded
    /\ last.ret # None
    /\ last.args.coverage
    /\ ~last.args.verbose
    /\ last.ret[1].stream = FALSE

----------------------------------------------------------------------------
(* What a load derives from a descriptor *)

MaxDefects == 2

\* The raw defects entries: patch indices of one to five digits.
RawEntries ==
    { Entry("abc1", p, 7) : p \in {1, 3, 15, 120, 1000, 12345} }
        \cup { Entry("abc2", 15, 2) }

RawDefects == UNION { [1..n -> RawEntries] : n \in 0..MaxDefects }

\* The raw command vectors: without the marker, with the marker as a token
\* and inside a token, and the empty vector.
RawCommands ==
    { << <<"make">>, <<"-j", Marker>> >>,
      << <<"make">>, <<Marker>>, <<"all">> >>,
      << >> }

RawTestTypes == {"automake", "ctest", "gtest", "cmake"}

RawCommon(tt, b, t) ==
    ("build" :> Cmd(b)) @@
    ("build-coverage" :> Cmd(<< <<"make">>, <<"coverage">>, <<Marker>> >>)) @@
    ("test-type" :> tt) @@
    ("test" :> Cmd(<< <<"make">>, <<"check">> >>)) @@
    ("test-coverage" :> Cmd(t)) @@
    ("gcov" :> [exclude |-> << "tests" >>, command |-> << <<"gcov">> >>])

RawCommons ==
    { RawCommon(tt, b, b) : tt \in RawTestTypes, b \in RawCommands }

RawDocuments ==
    { MkDoc(<<GoodInfo>>, <<c>>, <<d>>) : c \in RawCommons, d \in RawDefects }

DeriveInit ==
    /\ \E d \in RawDocuments :
          fs = [p \in Projects |-> IF p = Subject THEN File(d) ELSE NoFile]
    /\ InitHistory
    /\ InitExecIdle

DeriveNext ==
    \E f \in Fields : Access(Subject, f) /\ UNCHANGED execVars

DeriveSpec == DeriveInit /\ [][DeriveNext]_vars

----------------------------------------------------------------------------
(* Claims about what a load derives *)

\* The last operation was an access that read the descriptor and returned.
LoadSucceeded == AccessEnded /\ last.read /\ last.exc.type = "none"

\* The document the last access read.
RawDoc == fs[last.key].doc

\* n in at least four digits, zeros in front
Padded4(n) ==
    CASE n < 10 -> "000" \o ToString(n)
      [] n >= 10 /\ n < 100 -> "00" \o ToString(n)
      [] n >= 100 /\ n < 1000 -> "0" \o ToString(n)
      [] OTHER -> ToString(n)

\* C14: after a successful load the defects sequence has one Defect per raw
\* entry, in the same order, with hash and cases copied and the patch paths
\* <project path>/patch/NNNN-buggy.patch and NNNN-split.patch, NNNN being
\* the patch index zero-padded to 4 digits.
C14_DefectDerivation ==
    LoadSucceeded =>
        LET raw == RawDoc["defects"]
            got == Now.defects.val
        IN  /\ Len(got) = Len(raw)
            /\ \A i \in DOMAIN raw :
                  /\ got[i].hash = raw[i].hash
                  /\ got[i].cases = raw[i].cases
                  /\ got[i].buggy_patch =
                        PathOf(last.key) \o "/patch/" \o Padded4(raw[i].patch) \o "-buggy.patch"
                  /\ got[i].split_patch =
                        PathOf(last.key) \o "/patch/" \o Padded4(raw[i].patch) \o "-split.patch"

\* Indices 3 and 15, in that order, gave 0003-buggy.patch and 0015-split.patch.
C14_Witness ==
    /\ LoadSucceeded
    /\ Len(Now.defects.val) = 2
    /\ Now.defects.val[1].buggy_patch = "taxonomy/libssh/patch/0003-buggy.patch"
    /\ Now.defects.val[2].split_patch = "taxonomy/libssh/patch/0015-split.patch"

\* The four substituted vectors of a Common with the raw vectors they come from.
VectorPairs(common, raw) ==
    { <<common.build_command, raw["build"]["command"]>>,
      <<common.build_coverage_command, raw["build-coverage"]["command"]>>,
      <<common.test_command, raw["test"]["command"]>>,
      <<common.test_coverage_command, raw["test-coverage"]["command"]>> }

\* C15 as stated: a token that is the marker is replaced by the job value,
\* and every other token, the length and the order are as in the descriptor.
C15_TokenEquality ==
    LoadSucceeded =>
        \A pair \in VectorPairs(Now.common.val[1], RawDoc["common"]) :
            /\ Len(pair[1]) = Len(pair[2])
            /\ \A i \in DOMAIN pair[2] :
                  pair[1][i] = IF pair[2][i] = <<Marker>> THEN <<DPP_MAKE_JOB>>
                               ELSE pair[2][i]

\* C15 (amended): every occurrence of the marker, as a token or inside a
\* token, is replaced by the same job value in the four vectors; the other
\* pieces of every token, the tokens' order and the vectors' length are as
\* in the descriptor.
C15_MarkerOccurrences ==
    LoadSucceeded =>
        \A pair \in VectorPairs(Now.common.val[1], RawDoc["common"]) :
            /\ Len(pair[1]) = Len(pair[2])
            /\ \A i \in DOMAIN pair[2] :
                  /\ Len(pair[1][i]) = Len(pair[2][i])
                  /\ \A j \in DOMAIN pair[2][i] :
                        pair[1][i][j] = IF pair[2][i][j] = Marker THEN DPP_MAKE_JOB
                                        ELSE pair[2][i][j]

\* A load has turned -j@DPP_MAKE_JOB@ into -j4 and left make as it was.
C15_Witness ==
    /\ LoadSucceeded
    /\ RawDoc["common"]["build"]["command"] = << <<"make">>, <<"-j", Marker>> >>
    /\ Now.common.val[1].build_command = << <<"make">>, <<"-j", "4">> >>
    /\ Now.common.val[1].build_coverage_command = << <<"make">>, <<"coverage">>, <<"4">> >>

\* C16: every Common a successful load produces has non-empty build,
\* build-coverage, test and test-coverage command vectors.
C16_NonEmptyVectors ==
    LoadSucceeded =>
        \A pair \in VectorPairs(Now.common.val[1], RawDoc["common"]) : Len(pair[1]) >= 1

\* C17: automake, ctest and gtest map to Automake, CTest and GoogleTest; with
\* any other test-type the load does not fail and caches a Common whose
\* test_type is None.
C17_TestTypeMapping ==
    (AccessEnded /\ last.read) =>
        /\ last.exc.type = "none"
        /\ Now.common.val # None
        /\ Now.common.val[1].test_type =
              CASE RawDoc["common"]["test-type"] = "automake" -> "Automake"
                [] RawDoc["common"]["test-type"] = "ctest" -> "CTest"
                [] RawDoc["common"]["test-type"] = "gtest" -> "GoogleTest"
                [] OTHER -> "None"

\* A descriptor with test-type cmake was loaded and its Common is cached.
C17_Witness ==
    /\ LoadSucceeded
    /\ RawDoc["common"]["test-type"] = "cmake"
    /\ Now.common.val[1].test_type = "None"
    /\ Now.info.val # None

----------------------------------------------------------------------------
(* Threads making the first accesses to one MetaData at the same time *)

\* The descriptors of the concurrent runs: complete, without its info
\* section, or absent.
ConcContents ==
    {File(GoodDoc), File(MkDoc(<<>>, <<GoodCommon>>, <<GoodDefects>>)), NoFile}

ConcInit ==
    /\ \E c \in ConcContents : fs = [p \in Projects |-> IF p = Subject THEN c ELSE NoFile]
    /\ InitHistory
    /\ InitExecIdle

ConcNext ==
    \/ \E t \in Threads, f \in Fields : ThreadCall(t, Subject, f) /\ UNCHANGED execVars
    \/ \E t \in Threads : ThreadCheck(t, Subject) /\ UNCHANGED execVars
    \/ \E t \in Threads : ThreadOpen(t, Subject) /\ UNCHANGED execVars
    \/ \E t \in Threads, n \in 1..3 : ThreadStage(t, Subject, n) /\ UNCHANGED execVars
    \/ \E t \in Threads : ThreadReturn(t, Subject) /\ UNCHANGED execVars

ConcSpec == ConcInit /\ [][ConcNext]_vars

\* Every thread has made its access and the access has ended.
AllDone == \A t \in Threads : threads[t].pc = "done"

\* C18 as stated: on a complete descriptor, concurrent first accesses read
\* the descriptor exactly once, threads asking for the same field get the
\* same object, and no thread observes a partly populated MetaData.
C18_LoadOnce ==
    (AllDone /\ Loadable(fs[Subject])) =>
        /\ reads = 1
        /\ \A t \in Threads, u \in Threads :
              threads[t].field = threads[u].field => threads[t].obj = threads[u].obj
        /\ \A t \in Threads : ~threads[t].partial

\* What a load of the descriptor of p by one thread alone caches.
Alone(p) == _load(MetaDataInit(p, PathOf(p)), fs[p], 1).self

\* C18 as the code has it: on a complete descriptor, concurrent first accesses
\* read the descriptor at least once and at most once per thread, no access
\* raises, every thread gets an object made by one of the reads and equal in
\* value to what a load by one thread alone would cache, and a thread that
\* loaded by itself sees all three fields populated.
C18_LoadPerThread ==
    (AllDone /\ Loadable(fs[Subject])) =>
        /\ reads \in 1..MaxThreads
        /\ \A t \in Threads :
              /\ threads[t].exc = NoExc
              /\ threads[t].obj.id \in 1..reads
              /\ threads[t].obj.val = Alone(Subject)[threads[t].field].val
              /\ threads[t].id > 0 => ~threads[t].partial

\* Two threads have both read the complete descriptor and were handed
\* different objects for the same field.
C18_Witness ==
    /\ AllDone
    /\ Loadable(fs[Subject])
    /\ reads = 2
    /\ \E t \in Threads, u \in Threads :
          /\ threads[t].field = threads[u].field
          /\ threads[t].obj.id # threads[u].obj.id

----------------------------------------------------------------------------
(* Claims about the cache of a MetaData *)

\* A lazy field holds an object that a load made.
Populated(obj) == obj.id > 0

\* C19: snapshot consistency: in every state the populated lazy fields of a
\* MetaData were all derived from one and the same read of the descriptor.
C19_SnapshotConsistency ==
    \A p \in DOMAIN store :
        \A f \in Fields, g \in Fields :
            (Populated(store[p].md[f]) /\ Populated(store[p].md[g]))
                => store[p].md[f].id = store[p].md[g].id

\* The first stage of a load of document d raises.
DefectsStageFails(d) ==
    \/ "defects" \notin DOMAIN d
    \/ \E i \in DOMAIN d["defects"] : FirstError(d["defects"][i], DefectKeys).type # "none"

\* The second stage of a load of document d raises.
CommonStageFails(d) == FirstError(d, CommonKeys).type # "none"

\* C20: the stages run in the order defects, common, info and nothing clears
\* a field: info populated implies common populated and a completed load; a
\* field populated before an access is populated after it; and a load that
\* fails at a stage has run the stages before it and leaves the fields of
\* the later stages as they were.
C20_StageOrder ==
    /\ \A p \in DOMAIN store :
          Populated(store[p].md.info) => (Populated(store[p].md.common) /\ loaded[p])
    /\ AccessEnded =>
          \A f \in Fields : Populated(last.pre[f]) => Populated(Now[f])
    /\ (AccessRaised /\ last.read) =>
          IF DefectsStageFails(fs[last.key].doc)
          THEN /\ Now.common = last.pre.common
               /\ Now.info = last.pre.info
          ELSE IF CommonStageFails(fs[last.key].doc)
          THEN /\ Now.defects.id = reads
               /\ Now.info = last.pre.info
          ELSE /\ Now.defects.id = reads
               /\ Now.common.id = reads

\* A load has failed at the last stage: defects and common are cached, info
\* is not.
C20_Witness ==
    /\ AccessRaised
    /\ last.read
    /\ Populated(Now.defects)
    /\ Populated(Now.common)
    /\ ~Populated(Now.info)

====
